---- MODULE Spec2Model ----
(***************************************************************************)
(* Circuit gadgets of blobstreamx: the protobuf marshalling of a           *)
(* Tendermint validator (src/src/validator.rs) and the Celestia data       *)
(* commitment / header chain gadgets (src/src/commitment.rs).              *)
(*                                                                         *)
(* Arrays of the source are functions on 0..n-1, so that an index of the   *)
(* model is the index of the source.  A u32 or u64 wire does not fit the   *)
(* integers of the model checker: it is carried as its base-256 digits,    *)
(* least significant digit first (a u32 is 4 digits, a u64 is 8).          *)
(***************************************************************************)
EXTENDS Integers, Sequences, FiniteSets, TLC

VARIABLES
    pc,               \* position of the circuit construction
    op,               \* the gadget this session builds
    voting_power,     \* I64Target: limbs [0] (low) and [1] (high), each 4 digits
    pubkey,           \* Ed25519PubkeyTarget: 256 bits
    varint_buffer,    \* output of marshal_int64_varint: 72 bits
    validator_buffer, \* output of marshal_tendermint_validator: 368 bits
    other_voting_power,     \* a second validator's voting power
    other_pubkey,           \* a second validator's pubkey
    other_validator_buffer, \* marshal_tendermint_validator of the second one
    WINDOW_RANGE,     \* const generic of the commitment gadgets
    NB_LEAVES,        \* const generic of get_data_commitment
    data_hash,        \* encode_data_root_tuple: argument
    height,           \* encode_data_root_tuple: argument
    encoded_tuple,    \* encode_data_root_tuple: result
    data_hashes,      \* get_data_commitment: argument
    start_block,      \* get_data_commitment: argument
    leaves,           \* leaves handed to compute_root_from_leaves
    leaves_enabled,   \* flags handed to compute_root_from_leaves
    data_commitment,  \* root returned by get_data_commitment
    input,            \* CelestiaHeaderChainProofInputVariable
    curr_header_hash, \* prove_header_chain: the carried header hash
    hop,              \* prove_header_chain: loop index i
    asserts           \* equality constraints emitted so far, in order

other_vars == <<other_voting_power, other_pubkey, other_validator_buffer>>
marshal_vars ==
    <<voting_power, pubkey, varint_buffer, validator_buffer, other_vars>>
tuple_vars == <<data_hash, height, encoded_tuple>>
commitment_vars == <<data_hashes, start_block, leaves, leaves_enabled, data_commitment>>
chain_vars == <<input, curr_header_hash, hop, asserts>>

vars == <<pc, op, WINDOW_RANGE, NB_LEAVES, marshal_vars, tuple_vars,
          commitment_vars, chain_vars>>

(***************************************************************************)
(* validator.rs: constants                                                 *)
(***************************************************************************)
VALIDATOR_BYTES_LEN_MAX == 46
VALIDATOR_BITS_LEN_MAX == VALIDATOR_BYTES_LEN_MAX * 8
PUBKEY_BYTES_LEN == 32
VOTING_POWER_BYTES_LEN_MAX == 9
VOTING_POWER_BITS_LEN_MAX == VOTING_POWER_BYTES_LEN_MAX * 8

(***************************************************************************)
(* Bits and bytes                                                          *)
(***************************************************************************)
BitOf(x, j) == (x \div (2 ^ j)) % 2

\* The byte whose bits, least significant first, are buf[8*i] .. buf[8*i+7].
ByteAt(buf, i) ==
    buf[8 * i] + 2 * buf[8 * i + 1] + 4 * buf[8 * i + 2] + 8 * buf[8 * i + 3]
    + 16 * buf[8 * i + 4] + 32 * buf[8 * i + 5] + 64 * buf[8 * i + 6]
    + 128 * buf[8 * i + 7]

\* The n bytes of a buffer of 8*n bits.
BitsToBytes(buf, n) == [i \in 0..(n - 1) |-> ByteAt(buf, i)]

\* u32_to_bits_le: the 32 bits of a limb, least significant first.
U32ToBitsLE(limb) == [k \in 0..31 |-> BitOf(limb[k \div 8], k % 8)]

\* The limb whose bits, least significant first, are bits[off] .. bits[off+31].
U32FromBitsLE(bits, off) ==
    [d \in 0..3 |-> ByteAt([k \in 0..31 |-> bits[off + k]], d)]

\* The I64Target whose 64 bits, least significant first, are `bits`.
I64FromBitsLE(bits) ==
    [l \in 0..1 |-> U32FromBitsLE(bits, 32 * l)]

(***************************************************************************)
(* validator.rs: marshal_int64_varint                                      *)
(***************************************************************************)
\* Field elements that occur are small; a - b with a < b is the field element
\* p - (b - a), carried as the negative integer a - b (p exceeds every value
\* compared with it).
FieldSub(a, b) == a - b

\* Mutant of VotingPowerBits: the upper limb's bits first.
VotingPowerBitsUpperFirst(vp) ==
    LET lower == U32ToBitsLE(vp[0])
        upper == U32ToBitsLE(vp[1])
    IN  [k \in 0..63 |-> IF k < 32 THEN upper[k] ELSE lower[k - 32]]

\* Mutant of VotingPowerBits: the lower limb's bits taken twice.
VotingPowerBitsLowerTwice(vp) ==
    LET lower == U32ToBitsLE(vp[0])
    IN  [k \in 0..63 |-> IF k < 32 THEN lower[k] ELSE lower[k - 32]]

\* voting_power_bits: lower limb's bits then upper limb's bits.
VotingPowerBits(vp) ==
    LET lower == U32ToBitsLE(vp[0])
        upper == U32ToBitsLE(vp[1])
    IN  [k \in 0..63 |-> IF k < 32 THEN lower[k] ELSE upper[k - 32]]

\* septet = sum over j in 0..6 of base * bit, base doubling each round.
RECURSIVE SeptetAcc(_, _, _)
SeptetAcc(bits, i, j) ==
    IF j = 0 THEN 0
    ELSE (2 ^ (j - 1)) * bits[i * 7 + (j - 1)] + SeptetAcc(bits, i, j - 1)

Septets(bits) ==
    [i \in 0..(VOTING_POWER_BYTES_LEN_MAX - 1) |-> SeptetAcc(bits, i, 7)]

\* is_zero_septets[i] = is_equal(septets[i], zero), as a 0/1 target.
IsZeroSeptets(septets) ==
    [i \in 0..(VOTING_POWER_BYTES_LEN_MAX - 1) |-> IF septets[i] = 0 THEN 1 ELSE 0]

\* select(condition, idx, last_seen_non_zero_septet_idx), after rounds 0..n-1.
RECURSIVE LastSeenNonZeroSeptetIdx(_, _)
LastSeenNonZeroSeptetIdx(is_zero_septets, n) ==
    IF n = 0 THEN 0
    ELSE LET i == n - 1
             is_nonzero_septet == FieldSub(1, is_zero_septets[i])
         IN  IF is_nonzero_septet = 1
             THEN i
             ELSE LastSeenNonZeroSeptetIdx(is_zero_septets, i)

\* Mutants of VarintIdx: the comparison index off by one, either way.
VarintIdxSame(i) == i
VarintIdxSkip(i) == i + 2

\* idx = constant(i + 1)
VarintIdx(i) == i + 1

\* The OR over candidate_idx j in 0..8 of is_equal(diff, j).
IsLtLastNonZeroSeptetIdx(last_seen, i) ==
    LET diff == FieldSub(last_seen, VarintIdx(i))
    IN  IF \E j \in 0..(VOTING_POWER_BYTES_LEN_MAX - 1) : diff = j THEN 1 ELSE 0

\* The buffer returned by marshal_int64_varint.
MarshalInt64Varint(vp) ==
    LET bits == VotingPowerBits(vp)
        is_zero == IsZeroSeptets(Septets(bits))
        last_seen == LastSeenNonZeroSeptetIdx(is_zero, VOTING_POWER_BYTES_LEN_MAX)
    IN  [k \in 0..(VOTING_POWER_BITS_LEN_MAX - 1) |->
            IF k % 8 < 7
            THEN bits[(k \div 8) * 7 + (k % 8)]
            ELSE IsLtLastNonZeroSeptetIdx(last_seen, k \div 8)]

(***************************************************************************)
(* validator.rs: marshal_tendermint_validator                              *)
(***************************************************************************)
PrefixPubkeyBytes == <<10, 34, 10, 32>>
PrefixVotingPowerByte == 16

\* Mutant of MarshalTendermintValidator: each pubkey byte's bits most
\* significant first.
MarshalTendermintValidatorMsbFirst(pk, vp) ==
    LET voting_power_bits == MarshalInt64Varint(vp)
        npre == 8 * Len(PrefixPubkeyBytes)
        npk == npre + 8 * PUBKEY_BYTES_LEN
    IN  [ptr \in 0..(VALIDATOR_BITS_LEN_MAX - 1) |->
            IF ptr < npre
            THEN BitOf(PrefixPubkeyBytes[(ptr \div 8) + 1], ptr % 8)
            ELSE IF ptr < npk
            THEN pk[8 * ((ptr - npre) \div 8) + 7 - ((ptr - npre) % 8)]
            ELSE IF ptr < npk + 8
            THEN BitOf(PrefixVotingPowerByte, ptr - npk)
            ELSE voting_power_bits[ptr - npk - 8]]

MarshalTendermintValidator(pk, vp) ==
    LET voting_power_bits == MarshalInt64Varint(vp)
        npre == 8 * Len(PrefixPubkeyBytes)
        npk == npre + 8 * PUBKEY_BYTES_LEN
    IN  [ptr \in 0..(VALIDATOR_BITS_LEN_MAX - 1) |->
            IF ptr < npre
            THEN BitOf(PrefixPubkeyBytes[(ptr \div 8) + 1], ptr % 8)
            ELSE IF ptr < npk
            THEN pk[ptr - npre]
            ELSE IF ptr < npk + 8
            THEN BitOf(PrefixVotingPowerByte, ptr - npk)
            ELSE voting_power_bits[ptr - npk - 8]]

(***************************************************************************)
(* Inputs of the marshalling session                                       *)
(***************************************************************************)
\* Values a 7-bit group of the voting power is drawn from.
SeptetSamples == {0, 1, 127}

\* The 64 bits with groups g[0..8] and bit 63 equal to top.
BitsOfGroups(g, top) ==
    [k \in 0..63 |-> IF k = 63 THEN top ELSE BitOf(g[k \div 7], k % 7)]

\* Public keys: all zero, all one, and one with a single bit at position q.
PubkeySamples ==
    {[k \in 0..255 |-> 0], [k \in 0..255 |-> 1]}
    \cup {[k \in 0..255 |-> IF k = q THEN 1 ELSE 0] : q \in {0, 7, 8, 255}}

FalseBuffer(n) == [k \in 0..(n - 1) |-> 0]

\* Values a group is drawn from when the whole validator is marshalled.
ValidatorSeptetSamples == {0, 127}

\* Voting powers of a pair of validators: groups 0, 4 (which spans both limbs),
\* 5 and 8 are each empty or full, and bit 63 is clear or set.
PairVotingPowerSamples ==
    {I64FromBitsLE(BitsOfGroups([i \in 0..8 |-> IF i \in S THEN 127 ELSE 0], top)) :
        S \in SUBSET {0, 4, 5, 8}, top \in {0, 1}}

(***************************************************************************)
(* Reading a varint buffer back (protobuf base-128 decoding)               *)
(***************************************************************************)
VarintBytes == BitsToBytes(varint_buffer, VOTING_POWER_BYTES_LEN_MAX)

\* 1-based position of the first byte whose high bit is 0; 0 when every byte
\* has its high bit set (the buffer holds no complete varint).
MinimalLength(bytes) ==
    IF \E i \in DOMAIN bytes : bytes[i] < 128
    THEN 1 + CHOOSE i \in DOMAIN bytes :
                 /\ bytes[i] < 128
                 /\ \A k \in DOMAIN bytes : k < i => bytes[k] >= 128
    ELSE 0

\* The value of the bytes kept: the sum of (byte mod 128) * 128^i, as 64 bits.
DecodeVarint(bytes) ==
    LET n == MinimalLength(bytes)
    IN  I64FromBitsLE([k \in 0..63 |->
            IF k < 63 /\ k \div 7 < n
            THEN BitOf(bytes[k \div 7] % 128, k % 7)
            ELSE 0])

\* Bit k of the 64-bit input, and its 7-bit group i, read off the limbs.
InputBit(vp, k) == BitOf(vp[k \div 32][(k % 32) \div 8], k % 8)

InputGroup(vp, i) ==
    InputBit(vp, 7 * i) + 2 * InputBit(vp, 7 * i + 1) + 4 * InputBit(vp, 7 * i + 2)
    + 8 * InputBit(vp, 7 * i + 3) + 16 * InputBit(vp, 7 * i + 4)
    + 32 * InputBit(vp, 7 * i + 5) + 64 * InputBit(vp, 7 * i + 6)

\* Greatest index of a non-zero group, 0 when all nine groups are zero.
LastNz(vp) ==
    IF \E i \in 0..8 : InputGroup(vp, i) # 0
    THEN CHOOSE i \in 0..8 :
            /\ InputGroup(vp, i) # 0
            /\ \A k \in 0..8 : k > i => InputGroup(vp, k) = 0
    ELSE 0

\* u < 2^63: bit 63 of the input is clear.
Below2Pow63(vp) == InputBit(vp, 63) = 0

\* Number of bits of u, with bitlength(0) = 1.
BitLength(vp) ==
    IF \E k \in 0..63 : InputBit(vp, k) = 1
    THEN 1 + CHOOSE k \in 0..63 :
                 /\ InputBit(vp, k) = 1
                 /\ \A m \in 0..63 : m > k => InputBit(vp, m) = 0
    ELSE 1

(***************************************************************************)
(* commitment.rs: wires                                                    *)
(***************************************************************************)
\* Sizes of the protobuf leaves (crate::consts): a BlockID is
\* 0a 20 <hash> 12 24 08 01 12 20 <part set hash>, a hash is 0a 20 <hash>.
PROTOBUF_BLOCK_ID_SIZE_BYTES == 72
PROTOBUF_HASH_SIZE_BYTES == 34

EmptyVec == [k \in {} |-> 0]

ZeroBytes(n) == [k \in 0..(n - 1) |-> 0]

\* constant::<U64Variable>(n), for n < 2^24.
U64Const(n) ==
    [k \in 0..7 |->
        IF k = 0 THEN n % 256
        ELSE IF k = 1 THEN (n \div 256) % 256
        ELSE IF k = 2 THEN (n \div 65536) % 256
        ELSE 0]

\* U64Variable addition and subtraction: 64-bit, the carry out of the top
\* digit is dropped.
RECURSIVE AddCarry(_, _, _)
AddCarry(a, b, k) ==
    IF k = 0 THEN 0 ELSE (a[k - 1] + b[k - 1] + AddCarry(a, b, k - 1)) \div 256

U64Add(a, b) == [k \in 0..7 |-> (a[k] + b[k] + AddCarry(a, b, k)) % 256]

RECURSIVE SubBorrow(_, _, _)
SubBorrow(a, b, k) ==
    IF k = 0 THEN 0
    ELSE IF a[k - 1] - b[k - 1] - SubBorrow(a, b, k - 1) < 0 THEN 1 ELSE 0

U64Sub(a, b) == [k \in 0..7 |-> (256 + a[k] - b[k] - SubBorrow(a, b, k)) % 256]

\* Mutant of U64Encode: the digits left in little-endian order.
U64EncodeLittleEndian(h) == [k \in 0..7 |-> h[k]]

\* height.encode(self): the 8 bytes of a u64, most significant first.
U64Encode(h) == [k \in 0..7 |-> h[7 - k]]

(***************************************************************************)
(* commitment.rs: encode_marshalled_varint, encode_data_root_tuple,        *)
(* extract_hash_from_protobuf                                              *)
(***************************************************************************)
EncodeMarshalledVarint(marshalled_varint) ==
    [k \in 0..10 |->
        IF k = 0 THEN 0 ELSE IF k = 1 THEN 8 ELSE marshalled_varint[k - 2]]

EncodeDataRootTuple(hash, h) ==
    LET encoded_height == U64Encode(h)
    IN  [k \in 0..63 |->
            IF k < 24 THEN 0
            ELSE IF k < 32 THEN encoded_height[k - 24]
            ELSE hash[k - 32]]

ExtractHashFromProtobuf(START_BYTE, bytes) ==
    [k \in 0..31 |-> bytes[START_BYTE + k]]

(***************************************************************************)
(* commitment.rs: get_data_commitment                                      *)
(***************************************************************************)
\* Vec::resize(n, value) on a vector indexed from 0.
Resize(vec, n, value) ==
    [k \in 0..(n - 1) |-> IF k \in DOMAIN vec THEN vec[k] ELSE value]

\* Mutant of BlockHeight: the window starts one block after start_block.
BlockHeightNext(start, i) == U64Add(start, U64Const(i + 1))

\* block_height = add(start_block, constant(i))
BlockHeight(start, i) == U64Add(start, U64Const(i))

\* The leaves pushed by the loop over 0..WINDOW_RANGE.
PushedLeaves(hashes, start, window_range) ==
    [i \in 0..(window_range - 1) |->
        EncodeDataRootTuple(hashes[i], BlockHeight(start, i))]

\* Mutant of CommitmentLeaves: the padding repeats the last tuple.
CommitmentLeavesRepeat(hashes, start, window_range, nb_leaves) ==
    LET pushed == PushedLeaves(hashes, start, window_range)
    IN  Resize(pushed, nb_leaves,
               IF window_range = 0 THEN ZeroBytes(64) ELSE pushed[window_range - 1])

\* leaves, after leaves.resize(NB_LEAVES, [0u8; 64]).
CommitmentLeaves(hashes, start, window_range, nb_leaves) ==
    Resize(PushedLeaves(hashes, start, window_range), nb_leaves, ZeroBytes(64))

\* Mutant of CommitmentLeavesEnabled: every leaf enabled.
CommitmentLeavesEnabledAll(window_range, nb_leaves) ==
    Resize(EmptyVec, nb_leaves, TRUE)

\* leaves_enabled, after resize(WINDOW_RANGE, true) and resize(NB_LEAVES, false).
CommitmentLeavesEnabled(window_range, nb_leaves) ==
    Resize(Resize(EmptyVec, window_range, TRUE), nb_leaves, FALSE)

\* compute_root_from_leaves (gadget of the proof library): a collision-free root
\* of the enabled leaves.  The root is carried as what it commits to, a disabled
\* leaf leaving no trace of its content.
DisabledLeaf == [k \in 0..63 |-> -1]

ComputeRootFromLeaves(lvs, enabled) ==
    [k \in DOMAIN lvs |-> IF enabled[k] THEN lvs[k] ELSE DisabledLeaf]

GetDataCommitment(hashes, start, window_range, nb_leaves) ==
    ComputeRootFromLeaves(CommitmentLeaves(hashes, start, window_range, nb_leaves),
                          CommitmentLeavesEnabled(window_range, nb_leaves))

(***************************************************************************)
(* commitment.rs: prove_header_chain                                       *)
(***************************************************************************)
\* A 32-byte hash standing for header (or data) number id; its bytes differ
\* from position to position.
HashOfId(id) == [k \in 0..31 |-> IF k = 0 THEN 160 + id ELSE k]

HashIds == {0, 1}

RECURSIVE SumBytes(_, _)
SumBytes(bytes, n) == IF n = 0 THEN 0 ELSE bytes[n - 1] + SumBytes(bytes, n - 1)

\* get_root_from_merkle_proof (gadget of the proof library): a function of the
\* leaf and of the aunts.  The model keeps one bit of digest, so that the choice
\* of the aunts reaches every hash of HashIds.
MerkleRoot(proof) ==
    HashOfId((SumBytes(proof.leaf, Cardinality(DOMAIN proof.leaf)) + proof.aunts) % 2)

\* The leaf of a header's height: 0x00 0x08 and the varint of the height, cut
\* to its encoded length.
HeightLeaf(h, byte_length) ==
    LET limbs == [l \in 0..1 |-> [d \in 0..3 |-> h[4 * l + d]]]
        encoded == EncodeMarshalledVarint(
                       BitsToBytes(MarshalInt64Varint(limbs), VOTING_POWER_BYTES_LEN_MAX))
    IN  [k \in 0..(byte_length + 1) |-> encoded[k]]

\* verify_block_height: the height leaf is included under the header.
VerifyBlockHeight(name, header, aunts, h, byte_length) ==
    <<[check |-> name, hop |-> -1,
       lhs |-> MerkleRoot([leaf |-> HeightLeaf(h, byte_length), aunts |-> aunts]),
       rhs |-> header]>>

\* Mutants of HeightDiffConstraint: the assertion left out; an upper bound only.
HeightDiffConstraintNone(in, window_range) == <<>>

\* assert_is_equal(sub(current.height, trusted.height), constant(WINDOW_RANGE))
HeightDiffConstraint(in, window_range) ==
    <<[check |-> "height_diff", hop |-> -1,
       lhs |-> U64Sub(in.current_header.height, in.trusted_header.height),
       rhs |-> U64Const(window_range)]>>

\* Mutant of HopAgainst: every hop is checked against the current header.
HopAgainstCurrent(in, carried) == in.current_header.header

\* The hash prev_header_proof_root is asserted equal to: curr_header_hash.
HopAgainst(in, carried) == carried

\* Mutant of DataHashAgainst: the data hash is proven under the carried header.
DataHashAgainstCarried(carried, prev_header_hash) == carried

\* The hash data_hash_proof_root is asserted equal to: prev_header_hash.
DataHashAgainst(carried, prev_header_hash) == prev_header_hash

\* The two assertions of loop iteration i.
HopConstraints(in, i, carried, data_hash_proof, prev_header_proof) ==
    LET data_hash_proof_root == MerkleRoot(data_hash_proof)
        prev_header_proof_root == MerkleRoot(prev_header_proof)
        prev_header_hash ==
            ExtractHashFromProtobuf(2, prev_header_proof.leaf)
    IN  <<[check |-> "prev_header_proof_root", hop |-> i,
           lhs |-> prev_header_proof_root, rhs |-> HopAgainst(in, carried)],
          [check |-> "data_hash_proof_root", hop |-> i,
           lhs |-> data_hash_proof_root,
           rhs |-> DataHashAgainst(carried, prev_header_hash)]>>

\* Mutant of TrustedConstraint: the last assertion left out.
TrustedConstraintNone(in, carried) == <<>>

\* assert_is_equal(curr_header_hash, input.trusted_header.header)
TrustedConstraint(in, carried) ==
    <<[check |-> "trusted_header", hop |-> -1,
       lhs |-> carried, rhs |-> in.trusted_header.header]>>

\* prove_header_chain as a whole: the constraints it emits on a complete input,
\* in order.  HopsUpTo(in, n) are those of iterations 0 .. n-1, the carried hash
\* of iteration i being the current header for i = 0 and the hash extracted at
\* iteration i-1 otherwise.
CarriedHash(in, i) ==
    IF i = 0 THEN in.current_header.header
    ELSE ExtractHashFromProtobuf(2, in.prev_header_proofs[i - 1].leaf)

RECURSIVE HopsUpTo(_, _)
HopsUpTo(in, n) ==
    IF n = 0 THEN <<>>
    ELSE HopsUpTo(in, n - 1) \o
         HopConstraints(in, n - 1, CarriedHash(in, n - 1),
                        in.data_hash_proofs[n - 1], in.prev_header_proofs[n - 1])

ProveHeaderChain(in, window_range) ==
    HeightDiffConstraint(in, window_range)
    \o VerifyBlockHeight("current_height",
                         in.current_header.header,
                         in.current_header.header_height_proof.aunts,
                         in.current_header.height,
                         in.current_header.height_byte_length)
    \o VerifyBlockHeight("trusted_height",
                         in.trusted_header.header,
                         in.trusted_header.header_height_proof.aunts,
                         in.trusted_header.height,
                         in.trusted_header.height_byte_length)
    \o HopsUpTo(in, window_range)
    \o TrustedConstraint(in, CarriedHash(in, window_range))

\* Mutant of Satisfied: the last emitted equality decides alone.
SatisfiedByLast(constraints) ==
    constraints = <<>>
    \/ constraints[Len(constraints)].lhs = constraints[Len(constraints)].rhs

\* A witness satisfies the circuit iff every emitted equality holds.
Satisfied(constraints) ==
    \A k \in DOMAIN constraints : constraints[k].lhs = constraints[k].rhs

(***************************************************************************)
(* Sessions of the commitment gadgets: inputs                              *)
(***************************************************************************)
\* Largest WINDOW_RANGE and NB_LEAVES a session is built with.
MaxWindow == 2
MaxLeaves == 4

U64Max == [k \in 0..7 |-> 255]

\* Heights: small ones, ones whose successor carries into the next digit, one
\* with eight different digits (0x0102030405060708), and the two largest.
HeightSamples ==
    {U64Const(0), U64Const(254), U64Const(255), U64Const(256), U64Const(3800),
     U64Const(65535), [k \in 0..7 |-> 8 - k], U64Sub(U64Max, U64Const(1)), U64Max}

\* Trusted heights of prove_header_chain (one at the top of the 64-bit range)
\* and of prove_data_commitment (one whose successor carries into the next digit).
TrustedHeightSamples == {U64Const(3800), U64Max}

ProveTrustedHeightSamples == {U64Const(3800), U64Const(255)}

\* Data hashes: bytes that differ from position to position and from the
\* header hashes.
DataHashOfId(id) == HashOfId(2 + id)

DataHashSamples == {DataHashOfId(id) : id \in HashIds}

Bytes32Samples == {[k \in 0..31 |-> 255]} \cup DataHashSamples

AuntsSamples == {0, 1}

\* A previous-block-id leaf holding `hash`, and a data-hash leaf holding `hash`.
BlockIdLeaf(hash) ==
    [k \in 0..(PROTOBUF_BLOCK_ID_SIZE_BYTES - 1) |->
        IF k = 0 THEN 10 ELSE IF k = 1 THEN 32
        ELSE IF k < 34 THEN hash[k - 2]
        ELSE IF k = 34 THEN 18 ELSE IF k = 35 THEN 36
        ELSE IF k = 36 THEN 8 ELSE IF k = 37 THEN 1
        ELSE IF k = 38 THEN 18 ELSE IF k = 39 THEN 32
        ELSE 0]

DataHashLeaf(hash) ==
    [k \in 0..(PROTOBUF_HASH_SIZE_BYTES - 1) |->
        IF k = 0 THEN 10 ELSE IF k = 1 THEN 32 ELSE hash[k - 2]]

\* The aunts under which `leaf` has root `root`.
AuntsFor(leaf, root) ==
    CHOOSE a \in AuntsSamples : MerkleRoot([leaf |-> leaf, aunts |-> a]) = root

\* Number of bytes of the varint of a height.
HeightByteLength(h) ==
    MinimalLength(BitsToBytes(
        MarshalInt64Varint([l \in 0..1 |-> [d \in 0..3 |-> h[4 * l + d]]]),
        VOTING_POWER_BYTES_LEN_MAX))

HeaderVariable(hash, h, aunts) ==
    [header |-> hash,
     header_height_proof |-> [aunts |-> aunts],
     height_byte_length |-> HeightByteLength(h),
     height |-> h]

\* current.height - trusted.height as the witness has it: the window, and the
\* windows next to it.
HeightGaps(w) == {w, w + 1} \cup (IF w > 0 THEN {w - 1} ELSE {})

ChainInput(current, trusted) ==
    [current_header |-> current, trusted_header |-> trusted,
     data_hash_proofs |-> EmptyVec, prev_header_proofs |-> EmptyVec]

\* Witnesses of prove_header_chain: headers, heights and height proofs vary
\* freely.
ChainInputs(w) ==
    {ChainInput(HeaderVariable(HashOfId(c), U64Add(th, U64Const(d)), ca),
                HeaderVariable(HashOfId(t), th, ta)) :
        c \in HashIds, t \in HashIds, ca \in AuntsSamples, ta \in AuntsSamples,
        th \in TrustedHeightSamples, d \in HeightGaps(w)}

\* Witnesses of prove_data_commitment: the heights are window_range apart and
\* the trusted header's height proof is valid.
ProveInputs(w) ==
    {ChainInput(HeaderVariable(HashOfId(c), U64Add(th, U64Const(w)), ca),
                HeaderVariable(HashOfId(t), th,
                    AuntsFor(HeightLeaf(th, HeightByteLength(th)), HashOfId(t)))) :
        c \in HashIds, t \in HashIds, ca \in AuntsSamples,
        th \in ProveTrustedHeightSamples}

PrevHeaderProofSamples ==
    {[leaf |-> BlockIdLeaf(HashOfId(h)), aunts |-> a] :
        h \in HashIds, a \in AuntsSamples}

\* Data hash proofs of iteration i.  Under prove_header_chain the leaf is fixed
\* and the aunts vary; under prove_data_commitment the leaf varies and the proof
\* is valid under the header it is checked against.
DataHashProofSamples(gadget, prev_header_hash) ==
    IF gadget = "prove_header_chain"
    THEN {[leaf |-> DataHashLeaf(DataHashOfId(0)), aunts |-> a] : a \in AuntsSamples}
    ELSE {[leaf |-> DataHashLeaf(DataHashOfId(x)),
           aunts |-> AuntsFor(DataHashLeaf(DataHashOfId(x)), prev_header_hash)] :
             x \in HashIds}

Push(vec, x) ==
    LET n == Cardinality(DOMAIN vec)
    IN  [k \in 0..n |-> IF k < n THEN vec[k] ELSE x]

(***************************************************************************)
(* Sessions: initial states                                                *)
(***************************************************************************)
IdleOther ==
    /\ other_voting_power = [l \in 0..1 |-> ZeroBytes(4)]
    /\ other_pubkey = FalseBuffer(256)
    /\ other_validator_buffer = FalseBuffer(VALIDATOR_BITS_LEN_MAX)

IdleMarshal ==
    /\ voting_power = [l \in 0..1 |-> ZeroBytes(4)]
    /\ pubkey = FalseBuffer(256)
    /\ varint_buffer = FalseBuffer(VOTING_POWER_BITS_LEN_MAX)
    /\ validator_buffer = FalseBuffer(VALIDATOR_BITS_LEN_MAX)
    /\ IdleOther

IdleTuple ==
    /\ data_hash = ZeroBytes(32)
    /\ height = U64Const(0)
    /\ encoded_tuple = EmptyVec

NoCommitment ==
    /\ leaves = EmptyVec
    /\ leaves_enabled = EmptyVec
    /\ data_commitment = EmptyVec

IdleCommitment ==
    /\ data_hashes = EmptyVec
    /\ start_block = U64Const(0)
    /\ NoCommitment

NoChain ==
    /\ curr_header_hash = ZeroBytes(32)
    /\ hop = 0
    /\ asserts = <<>>

IdleChain ==
    /\ input = ChainInput(HeaderVariable(ZeroBytes(32), U64Const(0), 0),
                          HeaderVariable(ZeroBytes(32), U64Const(0), 0))
    /\ NoChain

InitMarshal ==
    /\ pc = "start"
    /\ \/ /\ op = "marshal_int64_varint"
          /\ \E g \in [0..8 -> SeptetSamples], top \in {0, 1} :
                voting_power = I64FromBitsLE(BitsOfGroups(g, top))
       \/ /\ op = "marshal_tendermint_validator"
          /\ \E g \in [0..8 -> ValidatorSeptetSamples], top \in {0, 1} :
                voting_power = I64FromBitsLE(BitsOfGroups(g, top))
    /\ pubkey = FalseBuffer(256)
    /\ varint_buffer = FalseBuffer(VOTING_POWER_BITS_LEN_MAX)
    /\ validator_buffer = FalseBuffer(VALIDATOR_BITS_LEN_MAX)
    /\ IdleOther
    /\ WINDOW_RANGE = 0 /\ NB_LEAVES = 0
    /\ IdleTuple /\ IdleCommitment /\ IdleChain

InitCommitment ==
    /\ pc = "start"
    /\ \/ /\ op = "encode_data_root_tuple"
          /\ WINDOW_RANGE = 0 /\ NB_LEAVES = 0
          /\ data_hash \in Bytes32Samples
          /\ height \in HeightSamples
          /\ encoded_tuple = EmptyVec
          /\ data_hashes = EmptyVec
          /\ start_block = U64Const(0)
       \/ /\ op = "get_data_commitment"
          /\ WINDOW_RANGE \in 0..MaxWindow
          /\ NB_LEAVES \in 1..MaxLeaves
          /\ WINDOW_RANGE <= NB_LEAVES
          /\ IdleTuple
          /\ data_hashes \in [0..(WINDOW_RANGE - 1) -> DataHashSamples]
          /\ start_block \in HeightSamples
    /\ NoCommitment
    /\ IdleMarshal /\ IdleChain

InitChain ==
    /\ pc = "height_diff"
    /\ op = "prove_header_chain"
    /\ WINDOW_RANGE \in 0..MaxWindow
    /\ NB_LEAVES = 0
    /\ input \in ChainInputs(WINDOW_RANGE)
    /\ NoChain
    /\ IdleMarshal /\ IdleTuple /\ IdleCommitment

\* NB_LEAVES of a proving session: the least power of two holding the window.
LeavesFor(w) == IF w <= 1 THEN 1 ELSE IF w = 2 THEN 2 ELSE 4

InitProve ==
    /\ pc = "start"
    /\ op = "prove_data_commitment"
    /\ WINDOW_RANGE \in 0..MaxWindow
    /\ NB_LEAVES = LeavesFor(WINDOW_RANGE)
    /\ input \in ProveInputs(WINDOW_RANGE)
    /\ data_hashes \in [0..(WINDOW_RANGE - 1) -> DataHashSamples]
    /\ start_block = U64Const(0)
    /\ NoCommitment /\ NoChain
    /\ IdleMarshal /\ IdleTuple

(***************************************************************************)
(* Sessions: steps of the construction                                     *)
(***************************************************************************)
DoMarshalInt64Varint ==
    /\ pc = "start"
    /\ op = "marshal_int64_varint"
    /\ varint_buffer' = MarshalInt64Varint(voting_power)
    /\ pc' = "done"
    /\ UNCHANGED <<op, WINDOW_RANGE, NB_LEAVES, voting_power, pubkey,
                   validator_buffer, other_vars, tuple_vars, commitment_vars,
                   chain_vars>>

DoMarshalTendermintValidator ==
    /\ pc = "start"
    /\ op = "marshal_tendermint_validator"
    /\ \E pk \in PubkeySamples :
          /\ pubkey' = pk
          /\ validator_buffer' = MarshalTendermintValidator(pk, voting_power)
    /\ pc' = "done"
    /\ UNCHANGED <<op, WINDOW_RANGE, NB_LEAVES, voting_power, varint_buffer,
                   other_vars, tuple_vars, commitment_vars, chain_vars>>

NextMarshal == DoMarshalInt64Varint \/ DoMarshalTendermintValidator

SpecMarshal == InitMarshal /\ [][NextMarshal]_vars

\* Two validators marshalled in one circuit, each by its own call of
\* marshal_tendermint_validator.
InitMarshalPair ==
    /\ pc = "start"
    /\ op = "marshal_tendermint_validator_pair"
    /\ voting_power \in PairVotingPowerSamples
    /\ other_voting_power \in PairVotingPowerSamples
    /\ pubkey = FalseBuffer(256)
    /\ other_pubkey = FalseBuffer(256)
    /\ varint_buffer = FalseBuffer(VOTING_POWER_BITS_LEN_MAX)
    /\ validator_buffer = FalseBuffer(VALIDATOR_BITS_LEN_MAX)
    /\ other_validator_buffer = FalseBuffer(VALIDATOR_BITS_LEN_MAX)
    /\ WINDOW_RANGE = 0 /\ NB_LEAVES = 0
    /\ IdleTuple /\ IdleCommitment /\ IdleChain

DoMarshalTendermintValidatorPair ==
    /\ pc = "start"
    /\ op = "marshal_tendermint_validator_pair"
    /\ \E pk \in PubkeySamples, other_pk \in PubkeySamples :
          /\ pubkey' = pk
          /\ other_pubkey' = other_pk
          /\ validator_buffer' = MarshalTendermintValidator(pk, voting_power)
          /\ other_validator_buffer' =
                MarshalTendermintValidator(other_pk, other_voting_power)
    /\ pc' = "done"
    /\ UNCHANGED <<op, WINDOW_RANGE, NB_LEAVES, voting_power, other_voting_power,
                   varint_buffer, tuple_vars, commitment_vars, chain_vars>>

NextMarshalPair == DoMarshalTendermintValidatorPair

SpecMarshalPair == InitMarshalPair /\ [][NextMarshalPair]_vars

\* encode_data_root_tuple
DoEncodeDataRootTuple ==
    /\ pc = "start"
    /\ op = "encode_data_root_tuple"
    /\ encoded_tuple' = EncodeDataRootTuple(data_hash, height)
    /\ pc' = "done"
    /\ UNCHANGED <<op, WINDOW_RANGE, NB_LEAVES, data_hash, height, marshal_vars,
                   commitment_vars, chain_vars>>

\* get_data_commitment
DoGetDataCommitment ==
    /\ pc = "start"
    /\ op = "get_data_commitment"
    /\ leaves' = CommitmentLeaves(data_hashes, start_block, WINDOW_RANGE, NB_LEAVES)
    /\ leaves_enabled' = CommitmentLeavesEnabled(WINDOW_RANGE, NB_LEAVES)
    /\ data_commitment' =
          GetDataCommitment(data_hashes, start_block, WINDOW_RANGE, NB_LEAVES)
    /\ pc' = "done"
    /\ UNCHANGED <<op, WINDOW_RANGE, NB_LEAVES, data_hashes, start_block,
                   marshal_vars, tuple_vars, chain_vars>>

NextCommitment == DoEncodeDataRootTuple \/ DoGetDataCommitment

SpecCommitment == InitCommitment /\ [][NextCommitment]_vars

\* Mutant of StartBlockArg: the window starts at the current header.
StartBlockArgCurrent(in) == in.current_header.height

\* The start_block prove_data_commitment passes on: input.trusted_header.height
StartBlockArg(in) == in.trusted_header.height

\* prove_data_commitment, up to its call of prove_header_chain
ProveDataCommitmentCall ==
    /\ pc = "start"
    /\ op = "prove_data_commitment"
    /\ start_block' = StartBlockArg(input)
    /\ leaves' = CommitmentLeaves(data_hashes, start_block', WINDOW_RANGE, NB_LEAVES)
    /\ leaves_enabled' = CommitmentLeavesEnabled(WINDOW_RANGE, NB_LEAVES)
    /\ data_commitment' =
          GetDataCommitment(data_hashes, start_block', WINDOW_RANGE, NB_LEAVES)
    /\ pc' = "height_diff"
    /\ UNCHANGED <<op, WINDOW_RANGE, NB_LEAVES, data_hashes, marshal_vars,
                   tuple_vars, chain_vars>>

\* prove_header_chain: the height difference
AssertHeightDiff ==
    /\ pc = "height_diff"
    /\ asserts' = asserts \o HeightDiffConstraint(input, WINDOW_RANGE)
    /\ pc' = "verify_current"
    /\ UNCHANGED <<op, WINDOW_RANGE, NB_LEAVES, input, curr_header_hash, hop,
                   marshal_vars, tuple_vars, commitment_vars>>

\* prove_header_chain: verify_block_height of the current header
VerifyCurrentHeight ==
    /\ pc = "verify_current"
    /\ asserts' = asserts \o
          VerifyBlockHeight("current_height",
                            input.current_header.header,
                            input.current_header.header_height_proof.aunts,
                            input.current_header.height,
                            input.current_header.height_byte_length)
    /\ pc' = "verify_trusted"
    /\ UNCHANGED <<op, WINDOW_RANGE, NB_LEAVES, input, curr_header_hash, hop,
                   marshal_vars, tuple_vars, commitment_vars>>

\* prove_header_chain: verify_block_height of the trusted header, then
\* curr_header_hash = input.current_header.header
VerifyTrustedHeight ==
    /\ pc = "verify_trusted"
    /\ asserts' = asserts \o
          VerifyBlockHeight("trusted_height",
                            input.trusted_header.header,
                            input.trusted_header.header_height_proof.aunts,
                            input.trusted_header.height,
                            input.trusted_header.height_byte_length)
    /\ curr_header_hash' = input.current_header.header
    /\ pc' = "loop"
    /\ UNCHANGED <<op, WINDOW_RANGE, NB_LEAVES, input, hop,
                   marshal_vars, tuple_vars, commitment_vars>>

\* prove_header_chain: iteration `hop` of the loop.  The witness entries
\* data_hash_proofs[hop] and prev_header_proofs[hop] are bound when the
\* iteration that consumes them is built.
HopStep ==
    /\ pc = "loop"
    /\ hop < WINDOW_RANGE
    /\ \E prev_header_proof \in PrevHeaderProofSamples :
        \E data_hash_proof \in
              DataHashProofSamples(op, ExtractHashFromProtobuf(2, prev_header_proof.leaf)) :
          /\ input' = [input EXCEPT
                          !.data_hash_proofs = Push(@, data_hash_proof),
                          !.prev_header_proofs = Push(@, prev_header_proof)]
          /\ asserts' = asserts \o
                HopConstraints(input, hop, curr_header_hash,
                               data_hash_proof, prev_header_proof)
          /\ curr_header_hash' = ExtractHashFromProtobuf(2, prev_header_proof.leaf)
    /\ hop' = hop + 1
    /\ UNCHANGED <<pc, op, WINDOW_RANGE, NB_LEAVES,
                   marshal_vars, tuple_vars, commitment_vars>>

\* prove_header_chain: the last header hash is the trusted header
AssertTrustedHeader ==
    /\ pc = "loop"
    /\ hop = WINDOW_RANGE
    /\ asserts' = asserts \o TrustedConstraint(input, curr_header_hash)
    /\ pc' = "done"
    /\ UNCHANGED <<op, WINDOW_RANGE, NB_LEAVES, input, curr_header_hash, hop,
                   marshal_vars, tuple_vars, commitment_vars>>

NextChain ==
    \/ AssertHeightDiff
    \/ VerifyCurrentHeight
    \/ VerifyTrustedHeight
    \/ HopStep
    \/ AssertTrustedHeader

SpecChain == InitChain /\ [][NextChain]_vars

NextProve == ProveDataCommitmentCall \/ NextChain

SpecProve == InitProve /\ [][NextProve]_vars

VarintDone == pc = "done" /\ op = "marshal_int64_varint"

(***************************************************************************)
(* Claims on marshal_int64_varint                                          *)
(***************************************************************************)
\* C8: for u < 2^63, the bytes of marshal_int64_varint(u) up to and including
\* the first byte whose high bit is 0 exist and decode, base 128 with the least
\* significant group first, to u.
C8_VarintRoundTrip ==
    (VarintDone /\ Below2Pow63(voting_power)) =>
        /\ MinimalLength(VarintBytes) # 0
        /\ DecodeVarint(VarintBytes) = voting_power

\* A nine-byte encoding with a zero group inside has been produced and decoded.
C8_Witness ==
    /\ VarintDone /\ Below2Pow63(voting_power)
    /\ MinimalLength(VarintBytes) = 9
    /\ \E i \in 1..7 : InputGroup(voting_power, i) = 0
    /\ DecodeVarint(VarintBytes) = voting_power

\* C9: for every input, the high bit of byte i is 1 iff i < last_nz, the low 7
\* bits of byte i are group i, every byte after last_nz is 0; the input 0 gives
\* nine zero bytes, and byte 8 never has its high bit set.
C9_ContinuationBits ==
    VarintDone =>
        LET last_nz == LastNz(voting_power) IN
        /\ \A i \in 0..8 :
              /\ (VarintBytes[i] >= 128) <=> (i < last_nz)
              /\ VarintBytes[i] % 128 = InputGroup(voting_power, i)
              /\ i > last_nz => VarintBytes[i] = 0
        /\ (\A k \in 0..62 : InputBit(voting_power, k) = 0)
              => \A i \in 0..8 : VarintBytes[i] = 0
        /\ VarintBytes[8] < 128

\* An input whose last non-zero group is neither the first nor the last, with a
\* zero group below it, has been marshalled.
C9_Witness ==
    /\ VarintDone
    /\ LastNz(voting_power) \in 2..7
    /\ \E i \in 0..8 : i < LastNz(voting_power) /\ InputGroup(voting_power, i) = 0
    /\ VarintBytes[0] >= 128

\* C10: for u < 2^63 the minimal encoded length (1-based position of the first
\* byte whose high bit is 0) is ceil(bitlength(u) / 7), with bitlength(0) = 1.
C10_MinimalLength ==
    (VarintDone /\ Below2Pow63(voting_power)) =>
        MinimalLength(VarintBytes) = (BitLength(voting_power) + 6) \div 7

\* u = 128 (bit length 8, the first value needing two bytes) has been marshalled.
C10_Witness ==
    /\ VarintDone /\ Below2Pow63(voting_power)
    /\ BitLength(voting_power) = 8
    /\ MinimalLength(VarintBytes) = 2

\* v mod 2^63: the input with bit 63 cleared.
Mod2Pow63(vp) ==
    I64FromBitsLE([k \in 0..63 |-> IF k = 63 THEN 0 ELSE InputBit(vp, k)])

\* C11: for every 64-bit input v, with bit 63 set or clear, marshal_int64_varint
\* emits no constraint (every witness is accepted) and its 9 bytes are those it
\* returns for v mod 2^63.
C11_Bit63Dropped ==
    VarintDone =>
        /\ asserts = <<>>
        /\ Satisfied(asserts)
        /\ varint_buffer = MarshalInt64Varint(Mod2Pow63(voting_power))

\* An input at or above 2^63 with non-zero bits below bit 63 has been
\* marshalled, and its bytes are not all zero.
C11_Witness ==
    /\ VarintDone
    /\ ~Below2Pow63(voting_power)
    /\ Mod2Pow63(voting_power) # voting_power
    /\ InputGroup(voting_power, 8) = 127
    /\ VarintBytes[8] = 127
    /\ asserts = <<>>

(***************************************************************************)
(* Claims on marshal_tendermint_validator                                  *)
(***************************************************************************)
ValidatorDone == pc = "done" /\ op = "marshal_tendermint_validator"
PairDone == pc = "done" /\ op = "marshal_tendermint_validator_pair"

ValidatorBytes == BitsToBytes(validator_buffer, 46)

\* Length of the protobuf varint of a 64-bit value: ceil(bitlength / 7), which
\* is 10 for a value with bit 63 set.
TrueVarintLength(vp) ==
    IF Below2Pow63(vp) THEN (BitLength(vp) + 6) \div 7 ELSE 10

\* C12: for every pubkey and voting power, marshal_tendermint_validator returns
\* 368 bits, least significant bit of each byte first: bytes 0..3 are 10, 34,
\* 10, 32; bits 32..287 are the pubkey bits in order; byte 36 is 16; bits
\* 296..367 are the buffer of marshal_int64_varint(voting_power); every byte
\* past the protobuf length 37 + varint length is zero.
C12_ValidatorLayout ==
    ValidatorDone =>
        /\ DOMAIN validator_buffer = 0..367
        /\ \A k \in 0..367 : validator_buffer[k] \in {0, 1}
        /\ ValidatorBytes[0] = 10 /\ ValidatorBytes[1] = 34
        /\ ValidatorBytes[2] = 10 /\ ValidatorBytes[3] = 32
        /\ \A k \in 0..255 : validator_buffer[32 + k] = pubkey[k]
        /\ ValidatorBytes[36] = 16
        /\ \A k \in 0..71 :
              validator_buffer[296 + k] = MarshalInt64Varint(voting_power)[k]
        /\ \A i \in 0..45 :
              i >= 37 + TrueVarintLength(voting_power) => ValidatorBytes[i] = 0

\* The validator with pubkey 00 01 00 .. 00 and voting power 2^14 - 1 has been
\* marshalled into 39 bytes followed by zeros.
C12_Witness ==
    /\ ValidatorDone
    /\ pubkey = [k \in 0..255 |-> IF k = 8 THEN 1 ELSE 0]
    /\ TrueVarintLength(voting_power) = 2
    /\ ValidatorBytes[4] = 0 /\ ValidatorBytes[5] = 1
    /\ ValidatorBytes[37] = 255 /\ ValidatorBytes[38] = 127
    /\ \A i \in 39..45 : ValidatorBytes[i] = 0

(***************************************************************************)
(* Reading the commitment gadgets' results                                 *)
(***************************************************************************)
\* The 64-byte data root tuple of (hash, h): 24 zero bytes, the 8 bytes of h
\* with the most significant digit first, the 32 bytes of the hash.
TupleOf(hash, h) ==
    [k \in 0..63 |->
        IF k < 24 THEN 0 ELSE IF k < 32 THEN h[31 - k] ELSE hash[k - 32]]

\* h_i of the walk, read off the witness: h_0 is the current header and
\* h_(i+1) is bytes [2, 34) of prev_header_proofs[i].leaf.
WalkHash(in, i) ==
    IF i = 0 THEN in.current_header.header
    ELSE [k \in 0..31 |-> in.prev_header_proofs[i - 1].leaf[2 + k]]

\* The data hash a data hash proof proves: bytes [2, 34) of its leaf.
ProvenDataHash(proof) == [k \in 0..31 |-> proof.leaf[2 + k]]

\* Every emitted constraint but those named holds.
SatisfiedExcept(names) ==
    \A k \in DOMAIN asserts :
        asserts[k].check \notin names => asserts[k].lhs = asserts[k].rhs

ChainDone == pc = "done" /\ op = "prove_header_chain"
ProveDone == pc = "done" /\ op = "prove_data_commitment"
TupleDone == pc = "done" /\ op = "encode_data_root_tuple"
CommitmentDone == pc = "done" /\ op = "get_data_commitment"

(***************************************************************************)
(* Claims on the commitment gadgets                                        *)
(***************************************************************************)
\* C1: in every witness satisfying prove_data_commitment, each data_hashes[i]
\* that went into the commitment is a data hash that some data_hash_proofs
\* entry proves under a header of the chain (stated in its weakest reading: any
\* entry will do).
C1_DataHashesAreProven ==
    (ProveDone /\ Satisfied(asserts)) =>
        \A i \in 0..(WINDOW_RANGE - 1) :
            \E j \in 0..(WINDOW_RANGE - 1) :
                data_hashes[i] = ProvenDataHash(input.data_hash_proofs[j])

\* C2: every prev_header_proof_root constraint of hop i equates the root of
\* prev_header_proofs[i] with h_i (h_0 the current header, h_(i+1) the bytes
\* [2, 34) of prev_header_proofs[i].leaf), so every satisfying witness has
\* root(prev_header_proofs[i]) = h_i for every i in [0, WINDOW_RANGE).
C2_HopByHop ==
    /\ \A k \in DOMAIN asserts :
          asserts[k].check = "prev_header_proof_root" =>
              /\ asserts[k].lhs = MerkleRoot(input.prev_header_proofs[asserts[k].hop])
              /\ asserts[k].rhs = WalkHash(input, asserts[k].hop)
    /\ (ChainDone /\ Satisfied(asserts)) =>
          \A i \in 0..(WINDOW_RANGE - 1) :
              MerkleRoot(input.prev_header_proofs[i]) = WalkHash(input, i)

\* A satisfying two-hop witness whose three header hashes are not all the
\* same has been walked.
C2_Witness ==
    /\ ChainDone /\ Satisfied(asserts)
    /\ WINDOW_RANGE = 2
    /\ WalkHash(input, 1) # WalkHash(input, 0)
    /\ WalkHash(input, 2) # WalkHash(input, 1)

\* C3: every satisfying witness of prove_header_chain has h_WINDOW_RANGE equal
\* to the trusted header (for WINDOW_RANGE = 0: current = trusted), also when
\* every other check passes.
C3_EndsAtTrusted ==
    (ChainDone /\ Satisfied(asserts)) =>
        WalkHash(input, WINDOW_RANGE) = input.trusted_header.header

\* A witness that passes every check but the last, and whose last extracted
\* hash is not the trusted header, has been found unsatisfiable.
C3_Witness ==
    /\ ChainDone
    /\ WINDOW_RANGE >= 1
    /\ SatisfiedExcept({"trusted_header"})
    /\ WalkHash(input, WINDOW_RANGE) # input.trusted_header.header
    /\ ~Satisfied(asserts)

\* C4: every satisfying witness of prove_header_chain has
\* current.height - trusted.height (the 64-bit difference the circuit forms)
\* equal to WINDOW_RANGE, also when every hash link and the last check hold.
C4_HeightDifference ==
    (ChainDone /\ Satisfied(asserts)) =>
        U64Sub(input.current_header.height, input.trusted_header.height)
            = U64Const(WINDOW_RANGE)

\* A witness whose heights are not WINDOW_RANGE apart, and that passes every
\* other check, has been found unsatisfiable.
C4_Witness ==
    /\ ChainDone
    /\ WINDOW_RANGE = 2
    /\ SatisfiedExcept({"height_diff"})
    /\ U64Sub(input.current_header.height, input.trusted_header.height)
          # U64Const(WINDOW_RANGE)
    /\ ~Satisfied(asserts)

\* C5 as claimed: the i-th data hash is encoded into its leaf together with
\* height trusted.height + 1 + i.
C5_HeightsStartAfterTrusted ==
    ProveDone =>
        \A i \in 0..(WINDOW_RANGE - 1) :
            leaves[i] = TupleOf(data_hashes[i],
                                U64Add(input.trusted_header.height, U64Const(1 + i)))

\* C5, amended: the i-th data hash (i in [0, WINDOW_RANGE)) is encoded into its
\* leaf together with height trusted.height + i, the 64-bit sum: the window is
\* [trusted.height, trusted.height + window_size - 1].
C5_HeightsStartAtTrusted ==
    ProveDone =>
        \A i \in 0..(WINDOW_RANGE - 1) :
            leaves[i] = TupleOf(data_hashes[i],
                                U64Add(input.trusted_header.height, U64Const(i)))

\* A satisfying two-block window trusted at 3800 has its second leaf at 3801.
C5_Witness ==
    /\ ProveDone /\ Satisfied(asserts)
    /\ WINDOW_RANGE = 2
    /\ input.trusted_header.height = U64Const(3800)
    /\ leaves[1] = TupleOf(data_hashes[1], U64Const(3801))

\* C6: for WINDOW_RANGE <= NB_LEAVES, get_data_commitment hands the root
\* gadget exactly NB_LEAVES leaves and NB_LEAVES flags: leaf i < WINDOW_RANGE is
\* the tuple of (data_hashes[i], start_block + i), the other leaves are 64 zero
\* bytes, and flag i is true iff i < WINDOW_RANGE.
C6_LeavesAndFlags ==
    (CommitmentDone /\ WINDOW_RANGE <= NB_LEAVES) =>
        /\ DOMAIN leaves = 0..(NB_LEAVES - 1)
        /\ DOMAIN leaves_enabled = 0..(NB_LEAVES - 1)
        /\ \A i \in 0..(NB_LEAVES - 1) :
              /\ i < WINDOW_RANGE =>
                    leaves[i] = TupleOf(data_hashes[i], U64Add(start_block, U64Const(i)))
              /\ i >= WINDOW_RANGE => leaves[i] = [k \in 0..63 |-> 0]
              /\ leaves_enabled[i] = (i < WINDOW_RANGE)

\* A window of two different data hashes has been padded to more leaves.
C6_Witness ==
    /\ CommitmentDone
    /\ WINDOW_RANGE = 2 /\ NB_LEAVES > WINDOW_RANGE
    /\ data_hashes[0] # data_hashes[1]
    /\ leaves_enabled[1] /\ ~leaves_enabled[2]

\* C7: encode_data_root_tuple returns 64 bytes: bytes 0..23 are zero, bytes
\* 24..31 are the height with its most significant byte at index 24, bytes
\* 32..63 are the hash in order.
C7_TupleLayout ==
    TupleDone =>
        /\ DOMAIN encoded_tuple = 0..63
        /\ \A k \in 0..23 : encoded_tuple[k] = 0
        /\ \A k \in 24..31 : encoded_tuple[k] = height[31 - k]
        /\ \A k \in 32..63 : encoded_tuple[k] = data_hash[k - 32]

\* The tuple of hash ff..ff and height 256 has been encoded: 1 at byte 30.
C7_Witness ==
    /\ TupleDone
    /\ height = U64Const(256)
    /\ data_hash = [k \in 0..31 |-> 255]
    /\ encoded_tuple[30] = 1 /\ encoded_tuple[31] = 0 /\ encoded_tuple[32] = 255

(***************************************************************************)
(* Claims on prove_data_commitment and prove_header_chain as wholes        *)
(***************************************************************************)
\* C13: prove_data_commitment returns the root get_data_commitment returns for
\* the same data_hashes with start_block = trusted_header.height, and the
\* constraints it has emitted are those of prove_header_chain on the same
\* input (get_data_commitment asserts nothing), so it is satisfiable iff
\* prove_header_chain is.
C13_ProveIsCommitmentAndChain ==
    ProveDone =>
        LET chain == ProveHeaderChain(input, WINDOW_RANGE) IN
        /\ data_commitment =
              GetDataCommitment(data_hashes, input.trusted_header.height,
                                WINDOW_RANGE, NB_LEAVES)
        /\ asserts = chain
        /\ Satisfied(asserts) <=> Satisfied(chain)

\* A satisfying proof over a window of two different data hashes has emitted
\* its eight constraints and returned the commitment that starts at the trusted
\* height.
C13_Witness ==
    /\ ProveDone /\ Satisfied(asserts)
    /\ WINDOW_RANGE = 2
    /\ data_hashes[0] # data_hashes[1]
    /\ Len(asserts) = 8
    /\ input.current_header.height # input.trusted_header.height
    /\ data_commitment =
          GetDataCommitment(data_hashes, input.trusted_header.height,
                            WINDOW_RANGE, NB_LEAVES)

\* C14: every data_hash_proof_root constraint of hop i equates the root of
\* data_hash_proofs[i] with h_(i+1), the hash extracted at hop i, one header
\* further back than the h_i that prev_header_proofs[i] is checked against.
\* So every satisfying witness has root(data_hash_proofs[i]) = h_(i+1) for the
\* WINDOW_RANGE hops, the last of them the trusted header, and no data hash
\* proof is checked against the current header: none has the current header as
\* its root unless a header further back has the current header's hash.
C14_DataHashOneStepBack ==
    /\ \A k \in DOMAIN asserts :
          asserts[k].check = "data_hash_proof_root" =>
              /\ asserts[k].lhs = MerkleRoot(input.data_hash_proofs[asserts[k].hop])
              /\ asserts[k].rhs = WalkHash(input, asserts[k].hop + 1)
    /\ (ChainDone /\ Satisfied(asserts)) =>
          /\ \A i \in 0..(WINDOW_RANGE - 1) :
                MerkleRoot(input.data_hash_proofs[i]) = WalkHash(input, i + 1)
          /\ WINDOW_RANGE >= 1 =>
                MerkleRoot(input.data_hash_proofs[WINDOW_RANGE - 1])
                    = input.trusted_header.header
          /\ Cardinality({k \in DOMAIN asserts :
                             asserts[k].check = "data_hash_proof_root"}) = WINDOW_RANGE
          /\ (\A j \in 1..WINDOW_RANGE :
                 WalkHash(input, j) # input.current_header.header)
                => \A i \in 0..(WINDOW_RANGE - 1) :
                      MerkleRoot(input.data_hash_proofs[i]) # input.current_header.header

\* A satisfying two-hop witness whose earlier headers differ from the current
\* one has been walked: both data hash proofs are rooted in earlier headers.
C14_Witness ==
    /\ ChainDone /\ Satisfied(asserts)
    /\ WINDOW_RANGE = 2
    /\ WalkHash(input, 1) # input.current_header.header
    /\ WalkHash(input, 2) # input.current_header.header
    /\ MerkleRoot(input.data_hash_proofs[0]) = WalkHash(input, 1)
    /\ MerkleRoot(input.data_hash_proofs[1]) = input.trusted_header.header
    /\ MerkleRoot(input.prev_header_proofs[0]) # MerkleRoot(input.data_hash_proofs[0])

\* The checks of prove_header_chain, read off the witness one by one.
HeightProofHolds(header) ==
    MerkleRoot([leaf |-> HeightLeaf(header.height, header.height_byte_length),
                aunts |-> header.header_height_proof.aunts]) = header.header

AllChecksHold(in, window_range) ==
    /\ U64Sub(in.current_header.height, in.trusted_header.height)
          = U64Const(window_range)
    /\ HeightProofHolds(in.current_header)
    /\ HeightProofHolds(in.trusted_header)
    /\ \A i \in 0..(window_range - 1) :
          /\ MerkleRoot(in.prev_header_proofs[i]) = WalkHash(in, i)
          /\ MerkleRoot(in.data_hash_proofs[i]) = WalkHash(in, i + 1)
    /\ WalkHash(in, window_range) = in.trusted_header.header

\* The witness with byte b of prev_header_proofs[i].leaf set to v.
TamperedLeaf(in, i, b, v) ==
    [in EXCEPT !.prev_header_proofs[i].leaf[b] = v]

\* Values a byte of an intermediate hash is changed to: one and two above it
\* (the second leaves the model's one-bit Merkle digest unchanged), and its
\* complement.
TamperedBytes(old) == {(old + 1) % 256, (old + 2) % 256, 255 - old}

\* C15: a finished prove_header_chain is satisfied iff all its checks hold
\* together (height difference, height proofs of current and of trusted, both
\* Merkle-root checks of every hop, last hash equal to trusted), whatever the
\* order they were emitted in; and a witness that differs from a satisfying one
\* in one byte of bytes [2, 34) of one prev_header_proofs[i].leaf is not
\* satisfying, whichever of the two has been built.
C15_NoPartialSuccess ==
    ChainDone =>
        /\ Satisfied(asserts) <=> AllChecksHold(input, WINDOW_RANGE)
        /\ asserts = ProveHeaderChain(input, WINDOW_RANGE)
        /\ \A i \in 0..(WINDOW_RANGE - 1) : \A b \in 2..33 :
              \A v \in TamperedBytes(input.prev_header_proofs[i].leaf[b]) :
                 LET other == TamperedLeaf(input, i, b, v)
                 IN  ~(Satisfied(asserts)
                       /\ Satisfied(ProveHeaderChain(other, WINDOW_RANGE)))

\* A two-hop witness that differs from a satisfying one in the first byte of
\* the hash of prev_header_proofs[0].leaf has been built and found
\* unsatisfiable, and its last check passes.
C15_Witness ==
    /\ ChainDone
    /\ WINDOW_RANGE = 2
    /\ ~Satisfied(asserts)
    /\ asserts[Len(asserts)].lhs = asserts[Len(asserts)].rhs
    /\ \E v \in TamperedBytes(input.prev_header_proofs[0].leaf[2]) :
          AllChecksHold(TamperedLeaf(input, 0, 2, v), WINDOW_RANGE)

\* C16: two validators whose voting powers are both below 2^63 and whose
\* 46-byte marshallings are equal have the same pubkey and the same voting
\* power.
C16_MarshalInjective ==
    (/\ PairDone
     /\ Below2Pow63(voting_power) /\ Below2Pow63(other_voting_power)
     /\ validator_buffer = other_validator_buffer)
        => (pubkey = other_pubkey /\ voting_power = other_voting_power)

\* Two validators with voting powers below 2^63 and a non-zero pubkey have
\* been marshalled into the same 46 bytes, which hold a two-limb voting power.
C16_Witness ==
    /\ PairDone
    /\ Below2Pow63(voting_power) /\ Below2Pow63(other_voting_power)
    /\ validator_buffer = other_validator_buffer
    /\ InputGroup(voting_power, 5) = 127
    /\ \E k \in 0..255 : pubkey[k] = 1
    /\ BitsToBytes(other_validator_buffer, 46)[42] = 255

====
